---- MODULE Spec2Model ----
(***************************************************************************)
(* MentorTestDeviceAgent (src/mtda/main.py): the session lease, the power  *)
(* and SD-mux state machines and the streaming image-write pipeline.       *)
(*                                                                         *)
(* Every facade call is one atomic action (the agent serves one request at *)
(* a time); the two decompression loops are modelled one iteration per     *)
(* step, and no other request is served while a loop is running.           *)
(* A Python exception leaving a handler is recorded in ret as the name of  *)
(* the exception; the fields keep what was assigned before the raise.      *)
(***************************************************************************)
EXTENDS Integers, Sequences, FiniteSets, TLC

VARIABLES
    now,                \* time.monotonic(), in seconds
    _lock_owner,        \* None or a session
    _lock_expiry,       \* <<>> for None, <<t>> for the float t
    power_controller,   \* TRUE iff a power driver is configured
    sdmux_controller,   \* TRUE iff a mux driver is configured
    console_logger,     \* TRUE iff a console logger is configured
    usb_switches,       \* what each configured USB switch is, by position
    pwr,                \* what the power driver's status() reports
    sd,                 \* what the mux driver's status() reports
    paused,             \* console logger: logging paused
    _sd_opened,
    _sd_mounted,
    _sd_bytes_written,  \* in data units
    zdec,               \* None, or the zlib decompressobj
    bz2dec,             \* None, or the BZ2Decompressor
    zdata,              \* "unset" (attribute missing), None, or a buffer
    sink,               \* the data units the mux driver's write() stored
    call,               \* the call served at this clock reading
    ret,                \* what it returned, or the exception it raised
    drv,                \* the driver and logger functions it invoked
    prev,               \* history: the lease as that call found it
    lastSeen,           \* history: when the owner acquired or last called
    pc,                 \* "idle", or the decompression loop that is running
    data,               \* the loop's local variable data
    start,              \* the loop's local variable start
    overdue,            \* history: decode-and-write steps of this call begun
                        \* with the feedback interval already used up
    status,             \* the last integer a call returned
    image,              \* client: the compressed image it sends
    rest,               \* client: the part of it not yet submitted
    proto               \* client: how it has followed the return contract

vars == <<now, _lock_owner, _lock_expiry, power_controller, sdmux_controller,
          console_logger, usb_switches, pwr, sd, paused, _sd_opened, _sd_mounted,
          _sd_bytes_written, zdec, bz2dec, zdata, sink, call, ret, drv,
          prev, lastSeen, pc, data, start, overdue, status, image, rest,
          proto>>

leaseVars  == <<_lock_owner, _lock_expiry>>
configVars == <<power_controller, sdmux_controller, console_logger,
                usb_switches>>
streamVars == <<pc, data, start, overdue>>
clientVars == <<image, rest, proto>>
decVars    == <<zdec, bz2dec, zdata>>

----------------------------------------------------------------------------
(* Bounds and constants *)

\* self._lock_timeout, in minutes
_lock_timeout == 5
\* self.fbintvl, in seconds
fbintvl == 8
\* a variant: a successful write reports the feedback interval
blksz_fbintvl == fbintvl

\* self.blksz, in bytes
blksz == 65536

\* the clock stops advancing between requests at MaxTime seconds
MaxTime == 300
\* the clock stops advancing inside a decompression loop at MaxLoopTime seconds
MaxLoopTime == 16
\* one block (blksz bytes) is BlockUnits data units of the model
BlockUnits == 2
\* the largest buffer, in data units, a client passes to sd_write_raw
MaxRaw == 1
\* the cap, in data units, on what sd_write_raw / sd_update add to the counter
MaxBytes == 2
\* the longest run, in data units, one unit of compressed input expands to
MaxRun == 3
\* the most units of compressed input in an image, its trailer aside
MaxTokens == 3
\* the most USB switches a configuration lists
MaxSwitches == 2

None == "None"
Sessions == {"s1", "s2"}
\* session=None is the default of every facade call
Callers == Sessions \cup {None}

----------------------------------------------------------------------------
(* The lease: _check_expired, _check_locked.  L is [owner, expiry, err]. *)

Lease == [owner |-> _lock_owner, expiry |-> _lock_expiry, err |-> ""]

\* a variant: the expiry test comes first, for the owner too
_check_expired_lapse(L, session) ==
    IF L.err # "" \/ L.owner = None THEN L
    ELSE IF L.expiry # <<>> /\ now >= L.expiry[1]
         THEN [L EXCEPT !.owner = None]
    ELSE IF session = L.owner
         THEN [L EXCEPT !.expiry = <<now + (_lock_timeout * 60)>>]
    ELSE IF L.expiry = <<>> THEN [L EXCEPT !.err = "TypeError"]
    ELSE L

\* now >= None raises TypeError
_check_expired(L, session) ==
    IF L.err # "" \/ L.owner = None THEN L
    ELSE IF session = L.owner
         THEN [L EXCEPT !.expiry = <<now + (_lock_timeout * 60)>>]
    ELSE IF L.expiry = <<>> THEN [L EXCEPT !.err = "TypeError"]
    ELSE IF now >= L.expiry[1] THEN [L EXCEPT !.owner = None]
    ELSE L

_check_locked(L, session) ==
    IF L.owner = None THEN FALSE ELSE session # L.owner

\* target_status: the lease after its expiry check, and the status string
target_status_of(L, session) ==
    LET L1 == _check_expired(L, session)
    IN  [L |-> L1, v |-> IF ~power_controller THEN "???" ELSE pwr]

\* a variant: an opened write session holds the power calls back
power_locked_opened(L, session) ==
    LET L1 == _check_expired(L, session)
    IN  [L |-> L1,
         v |-> IF _check_locked(L1, session) THEN TRUE
               ELSE IF ~power_controller THEN TRUE
               ELSE IF _sd_opened THEN TRUE
               ELSE FALSE]

\* power_locked: the lease after its expiry check, and the answer
power_locked(L, session) ==
    LET L1 == _check_expired(L, session)
    IN  [L |-> L1,
         v |-> IF _check_locked(L1, session) THEN TRUE
               ELSE IF ~power_controller THEN TRUE
               ELSE FALSE]

\* console_locked
console_locked(L, session) ==
    LET L1 == _check_expired(L, session)
    IN  [L |-> L1, v |-> _check_locked(L1, session)]

\* a variant: the power state is not consulted
sd_locked_nopower(L, session) ==
    LET L1 == _check_expired(L, session)
    IN  IF _check_locked(L1, session) THEN [L |-> L1, v |-> TRUE]
        ELSE IF ~sdmux_controller THEN [L |-> L1, v |-> TRUE]
        ELSE IF ~power_controller THEN [L |-> L1, v |-> TRUE]
        ELSE IF _sd_opened THEN [L |-> L1, v |-> TRUE]
        ELSE [L |-> L1, v |-> FALSE]

\* sd_locked; target_status() is called with the default session None
sd_locked(L, session) ==
    LET L1 == _check_expired(L, session)
    IN  IF _check_locked(L1, session) THEN [L |-> L1, v |-> TRUE]
        ELSE IF ~sdmux_controller THEN [L |-> L1, v |-> TRUE]
        ELSE IF ~power_controller THEN [L |-> L1, v |-> TRUE]
        ELSE LET ts == target_status_of(L1, None)
             IN  IF ts.L.err # "" THEN [L |-> ts.L, v |-> TRUE]
                 ELSE IF ts.v # "OFF" THEN [L |-> ts.L, v |-> TRUE]
                 ELSE IF _sd_opened THEN [L |-> ts.L, v |-> TRUE]
                 ELSE [L |-> ts.L, v |-> FALSE]

BoolStr(b) == IF b THEN "True" ELSE "False"

\* what every handler leaves behind: the lease, the call and its result
Done(op, session, L, result, drivers) ==
    /\ _lock_owner' = L.owner
    /\ _lock_expiry' = L.expiry
    /\ call' = [op |-> op, session |-> session]
    /\ ret' = IF L.err # "" THEN L.err ELSE result
    /\ drv' = drivers
    /\ prev' = [owner |-> _lock_owner, expiry |-> _lock_expiry,
                seen |-> lastSeen]
    /\ lastSeen' = IF L.owner = None THEN 0
                   ELSE IF session = L.owner THEN now
                   ELSE lastSeen

\* a request is served only between requests
Idle == pc = "idle"

----------------------------------------------------------------------------
(* Lease operations *)

target_lock(session) ==
    /\ Idle
    /\ LET L1 == _check_expired(Lease, session)
       IN  IF L1.err # "" THEN Done("target_lock", session, L1, "", {})
           ELSE IF L1.owner = None \/ L1.owner = session
                THEN Done("target_lock", session,
                          [L1 EXCEPT !.owner = session], "True", {})
                ELSE Done("target_lock", session, L1, "False", {})
    /\ UNCHANGED <<now, configVars, pwr, sd, paused, _sd_opened, _sd_mounted,
                   _sd_bytes_written, decVars, sink, status, streamVars,
                   clientVars>>

\* a variant: any caller's target_unlock clears the owner
target_unlock_any(session) ==
    /\ Idle
    /\ LET L1 == _check_expired(Lease, session)
       IN  IF L1.err # "" THEN Done("target_unlock", session, L1, "", {})
           ELSE Done("target_unlock", session,
                     [L1 EXCEPT !.owner = None], "True", {})
    /\ UNCHANGED <<now, configVars, pwr, sd, paused, _sd_opened, _sd_mounted,
                   _sd_bytes_written, decVars, sink, status, streamVars,
                   clientVars>>

target_unlock(session) ==
    /\ Idle
    /\ LET L1 == _check_expired(Lease, session)
       IN  IF L1.err # "" THEN Done("target_unlock", session, L1, "", {})
           ELSE IF L1.owner = session
                THEN Done("target_unlock", session,
                          [L1 EXCEPT !.owner = None], "True", {})
                ELSE Done("target_unlock", session, L1, "False", {})
    /\ UNCHANGED <<now, configVars, pwr, sd, paused, _sd_opened, _sd_mounted,
                   _sd_bytes_written, decVars, sink, status, streamVars,
                   clientVars>>

target_locked(session) ==
    /\ Idle
    /\ LET L1 == _check_expired(Lease, session)
       IN  Done("target_locked", session, L1,
                BoolStr(_check_locked(L1, session)), {})
    /\ UNCHANGED <<now, configVars, pwr, sd, paused, _sd_opened, _sd_mounted,
                   _sd_bytes_written, decVars, sink, status, streamVars,
                   clientVars>>

----------------------------------------------------------------------------
(* Power operations.  The power driver (package mtda.power) is outside     *)
(* main.py:                                                                *)
(* on()/off() answer True or False and the reported state follows a True;  *)
(* toggle() answers the state it reached.  Reads of status() are not       *)
(* recorded in drv.                                                        *)

POWER_ON == "ON"
POWER_OFF == "OFF"
POWER_LOCKED == "LOCKED"

PowerToggled(p) == IF p = POWER_ON THEN POWER_OFF ELSE POWER_ON

target_on(session) ==
    /\ Idle
    /\ \E r \in BOOLEAN :
        LET L1 == _check_expired(Lease, session)
            pl == power_locked(L1, session)
            lg == IF console_logger THEN {"logger.resume"} ELSE {}
        IN  /\ paused' = IF console_logger THEN FALSE ELSE paused
            /\ IF pl.L.err # "" \/ pl.v
               THEN /\ Done("target_on", session, pl.L, "False", lg)
                    /\ pwr' = pwr
               ELSE /\ Done("target_on", session, pl.L, BoolStr(r),
                            lg \cup {"power.on"})
                    /\ pwr' = IF r THEN POWER_ON ELSE pwr
    /\ UNCHANGED <<now, configVars, sd, _sd_opened, _sd_mounted,
                   _sd_bytes_written, decVars, sink, status, streamVars,
                   clientVars>>

\* console_logger.pause() is called outside the "is not None" test
target_off(session) ==
    /\ Idle
    /\ \E r \in BOOLEAN :
        LET L1 == _check_expired(Lease, session)
            pl == power_locked(L1, session)
        IN  IF pl.L.err # "" \/ pl.v
            THEN /\ Done("target_off", session, pl.L, "False", {})
                 /\ UNCHANGED <<pwr, paused>>
            ELSE /\ pwr' = IF r THEN POWER_OFF ELSE pwr
                 /\ paused' = IF r /\ console_logger THEN TRUE ELSE paused
                 /\ Done("target_off", session, pl.L,
                         IF r /\ ~console_logger THEN "AttributeError"
                         ELSE BoolStr(r),
                         {"power.off"}
                           \cup (IF console_logger
                                 THEN {"logger.reset_timer"} ELSE {})
                           \cup (IF r /\ console_logger
                                 THEN {"logger.pause"} ELSE {}))
    /\ UNCHANGED <<now, configVars, sd, _sd_opened, _sd_mounted,
                   _sd_bytes_written, decVars, sink, status, streamVars,
                   clientVars>>

\* both tests compare with POWER_OFF; self.power_controller.POWER_LOCKED is
\* read from None when no power driver is configured
target_toggle(session) ==
    /\ Idle
    /\ \E r \in BOOLEAN :
        LET L1 == _check_expired(Lease, session)
            pl == power_locked(L1, session)
            st == IF r THEN PowerToggled(pwr) ELSE pwr
        IN  IF pl.L.err # "" \/ pl.v
            THEN /\ Done("target_toggle", session, pl.L,
                         IF power_controller THEN POWER_LOCKED
                         ELSE "AttributeError", {})
                 /\ UNCHANGED <<pwr, paused>>
            ELSE /\ pwr' = st
                 /\ paused' = IF console_logger /\ st = POWER_OFF
                              THEN TRUE ELSE paused
                 /\ Done("target_toggle", session, pl.L, st,
                         {"power.toggle"}
                           \cup (IF console_logger /\ st = POWER_OFF
                                 THEN {"logger.resume", "logger.pause",
                                       "logger.reset_timer"}
                                 ELSE {}))
    /\ UNCHANGED <<now, configVars, sd, _sd_opened, _sd_mounted,
                   _sd_bytes_written, decVars, sink, status, streamVars,
                   clientVars>>

target_status(session) ==
    /\ Idle
    /\ LET ts == target_status_of(Lease, session)
       IN  Done("target_status", session, ts.L, ts.v, {})
    /\ UNCHANGED <<now, configVars, pwr, sd, paused, _sd_opened, _sd_mounted,
                   _sd_bytes_written, decVars, sink, status, streamVars,
                   clientVars>>

----------------------------------------------------------------------------
(* Gated console calls: console_clear, console_flush, console_prompt,      *)
(* console_run, console_send and console_tail have the same body up to the *)
(* logger method they call.                                                *)

ConsoleGated == {"console_clear", "console_flush", "console_prompt",
                 "console_run", "console_send", "console_tail"}

console_gated(op, session) ==
    /\ Idle
    /\ LET L1 == _check_expired(Lease, session)
           cl == console_locked(L1, session)
       IN  IF cl.L.err # "" \/ cl.v \/ ~console_logger
           THEN Done(op, session, cl.L, "None", {})
           ELSE Done(op, session, cl.L, "logger", {"logger." \o op})
    /\ UNCHANGED <<now, configVars, pwr, sd, paused, _sd_opened, _sd_mounted,
                   _sd_bytes_written, decVars, sink, status, streamVars,
                   clientVars>>

----------------------------------------------------------------------------
(* SD-mux operations.  The mux driver (package mtda.sdmux) is outside      *)
(* main.py: open/close/mount/write/to_host/to_target answer True or False; *)
(* a True open() starts a fresh image in sink, a True write() appends to   *)
(* it, a True to_host()/to_target() moves the card.                        *)

SD_ON_HOST == "HOST"
SD_ON_TARGET == "TARGET"

\* buffers of sd_write_raw and sd_update: up to MaxRaw data units
RawBuffers == {<<>>} \cup UNION {[1..n -> {"a"}] : n \in 1..MaxRaw}

NoDecoder == <<>>

\* the body of sd_close; rc is the answer of the driver's close()
sd_close_of(L, session, rc) ==
    LET L1 == _check_expired(L, session)
    IN  IF L1.err # "" \/ ~sdmux_controller
        THEN [L |-> L1, opened |-> _sd_opened, reset |-> FALSE,
              drivers |-> {}, v |-> FALSE]
        ELSE LET o == IF _sd_opened THEN ~rc ELSE _sd_opened
             IN  [L |-> L1, opened |-> o, reset |-> TRUE,
                  drivers |-> IF _sd_opened THEN {"sdmux.close"} ELSE {},
                  v |-> (o = FALSE)]

sd_close(session) ==
    /\ Idle
    /\ \E rc \in BOOLEAN :
        LET c == sd_close_of(Lease, session, rc)
        IN  /\ Done("sd_close", session, c.L, BoolStr(c.v), c.drivers)
            /\ _sd_opened' = c.opened
            /\ zdec' = IF c.reset THEN NoDecoder ELSE zdec
            /\ bz2dec' = IF c.reset THEN NoDecoder ELSE bz2dec
    /\ UNCHANGED <<now, configVars, pwr, sd, paused, _sd_mounted,
                   _sd_bytes_written, zdata, sink, status, streamVars>>

\* self.sd_close() is called with the default session None
sd_open(session) ==
    /\ Idle
    /\ \E rc, ro \in BOOLEAN :
        LET L1 == _check_expired(Lease, session)
            c  == sd_close_of(L1, None, rc)
        IN  IF L1.err # "" \/ ~sdmux_controller \/ c.L.err # ""
            THEN /\ Done("sd_open", session, c.L, "False", {})
                 /\ UNCHANGED <<_sd_opened, _sd_bytes_written, zdec, bz2dec,
                                sink>>
            ELSE /\ Done("sd_open", session, c.L, BoolStr(ro),
                         c.drivers \cup {"sdmux.open"})
                 /\ zdec' = NoDecoder
                 /\ bz2dec' = NoDecoder
                 /\ _sd_bytes_written' = 0
                 /\ _sd_opened' = ro
                 /\ sink' = IF ro THEN <<>> ELSE sink
    /\ UNCHANGED <<now, configVars, pwr, sd, paused, _sd_mounted, zdata,
                   status, streamVars>>

sd_mount(session) ==
    /\ Idle
    /\ \E r \in BOOLEAN :
        LET L1 == _check_expired(Lease, session)
        IN  IF L1.err # "" THEN
                /\ Done("sd_mount", session, L1, "", {})
                /\ UNCHANGED _sd_mounted
            ELSE IF _sd_mounted THEN
                /\ Done("sd_mount", session, L1, "True", {})
                /\ UNCHANGED _sd_mounted
            ELSE IF ~sdmux_controller THEN
                /\ Done("sd_mount", session, L1, "False", {})
                /\ UNCHANGED _sd_mounted
            ELSE
                /\ Done("sd_mount", session, L1, BoolStr(r), {"sdmux.mount"})
                /\ _sd_mounted' = r
    /\ UNCHANGED <<now, configVars, pwr, sd, paused, _sd_opened,
                   _sd_bytes_written, decVars, sink, status, streamVars,
                   clientVars>>

\* result is the answer of the driver's update(): -1, or the units it wrote
sd_update(offset, buf, session) ==
    /\ Idle
    /\ \E result \in {-1, Len(buf)} :
        LET L1 == _check_expired(Lease, session)
            base == IF offset = 0 THEN 0 ELSE _sd_bytes_written
        IN  IF L1.err # "" THEN
                /\ Done("sd_update", session, L1, "", {})
                /\ UNCHANGED <<_sd_bytes_written, status>>
            ELSE IF ~sdmux_controller THEN
                /\ Done("sd_update", session, L1, "status", {})
                /\ status' = -1
                /\ UNCHANGED _sd_bytes_written
            ELSE
                /\ base + Len(buf) <= MaxBytes
                /\ Done("sd_update", session, L1, "status", {"sdmux.update"})
                /\ status' = result
                /\ _sd_bytes_written' =
                       IF result > 0 THEN base + result ELSE base
    /\ UNCHANGED <<now, configVars, pwr, sd, paused, _sd_opened, _sd_mounted,
                   decVars, sink, streamVars,
                   clientVars>>

\* a variant: the counter is set to the length of the last buffer
raw_count_last(buf) == Len(buf)

\* self._sd_bytes_written += len(data)
raw_count(buf) == _sd_bytes_written + Len(buf)

sd_write_raw(buf, session) ==
    /\ Idle
    /\ \E r \in BOOLEAN :
        LET L1 == _check_expired(Lease, session)
        IN  IF L1.err # "" THEN
                /\ Done("sd_write_raw", session, L1, "", {})
                /\ UNCHANGED <<_sd_bytes_written, status, sink>>
            ELSE IF ~sdmux_controller THEN
                /\ Done("sd_write_raw", session, L1, "status", {})
                /\ status' = -1
                /\ UNCHANGED <<_sd_bytes_written, sink>>
            ELSE
                /\ _sd_bytes_written + Len(buf) <= MaxBytes
                /\ Len(sink) + Len(buf) <= MaxBytes
                /\ Done("sd_write_raw", session, L1, "status",
                        {"sdmux.write"})
                /\ status' = IF r THEN blksz ELSE -1
                /\ sink' = IF r THEN sink \o buf ELSE sink
                /\ _sd_bytes_written' =
                       IF r THEN raw_count(buf) ELSE _sd_bytes_written
    /\ UNCHANGED <<now, configVars, pwr, sd, paused, _sd_opened, _sd_mounted,
                   decVars, streamVars,
                   clientVars>>

sd_bytes_written(session) ==
    /\ Idle
    /\ LET L1 == _check_expired(Lease, session)
       IN  /\ Done("sd_bytes_written", session, L1, "status", {})
           /\ status' = IF L1.err # "" THEN status ELSE _sd_bytes_written
    /\ UNCHANGED <<now, configVars, pwr, sd, paused, _sd_opened, _sd_mounted,
                   _sd_bytes_written, decVars, sink, streamVars,
                   clientVars>>

\* sd_status: the lease after its expiry check, and the status string
sd_status_of(L, session, card) ==
    LET L1 == _check_expired(L, session)
    IN  [L |-> L1, v |-> IF ~sdmux_controller THEN "???" ELSE card]

sd_status(session) ==
    /\ Idle
    /\ LET st == sd_status_of(Lease, session, sd)
       IN  Done("sd_status", session, st.L, st.v, {})
    /\ UNCHANGED <<now, configVars, pwr, sd, paused, _sd_opened, _sd_mounted,
                   _sd_bytes_written, decVars, sink, status, streamVars,
                   clientVars>>

\* a variant: an opened write session does not hold the swap back
sd_to_host_opened(session) ==
    /\ Idle
    /\ \E r \in BOOLEAN :
        LET L1 == _check_expired(Lease, session)
            sl == sd_locked(L1, session)
        IN  IF sl.L.err # "" \/ (sl.v /\ ~_sd_opened)
            THEN /\ Done("sd_to_host", session, sl.L, "False", {})
                 /\ sd' = sd
            ELSE /\ Done("sd_to_host", session, sl.L, BoolStr(r),
                         {"sdmux.to_host"})
                 /\ sd' = IF r THEN SD_ON_HOST ELSE sd
    /\ UNCHANGED <<now, configVars, pwr, paused, _sd_opened, _sd_mounted,
                   _sd_bytes_written, decVars, sink, status, streamVars,
                   clientVars>>

sd_to_host(session) ==
    /\ Idle
    /\ \E r \in BOOLEAN :
        LET L1 == _check_expired(Lease, session)
            sl == sd_locked(L1, session)
        IN  IF sl.L.err # "" \/ sl.v
            THEN /\ Done("sd_to_host", session, sl.L, "False", {})
                 /\ sd' = sd
            ELSE /\ Done("sd_to_host", session, sl.L, BoolStr(r),
                         {"sdmux.to_host"})
                 /\ sd' = IF r THEN SD_ON_HOST ELSE sd
    /\ UNCHANGED <<now, configVars, pwr, paused, _sd_opened, _sd_mounted,
                   _sd_bytes_written, decVars, sink, status, streamVars,
                   clientVars>>

\* self.sd_close() is called with the default session None
sd_to_target(session) ==
    /\ Idle
    /\ \E r, rc \in BOOLEAN :
        LET L1 == _check_expired(Lease, session)
            sl == sd_locked(L1, session)
            c  == sd_close_of(sl.L, None, rc)
        IN  IF sl.L.err # "" \/ sl.v
            THEN /\ Done("sd_to_target", session, sl.L, "False", {})
                 /\ UNCHANGED <<sd, _sd_opened, zdec, bz2dec>>
            ELSE IF c.L.err # ""
            THEN /\ Done("sd_to_target", session, c.L, "", {})
                 /\ UNCHANGED <<sd, _sd_opened, zdec, bz2dec>>
            ELSE /\ Done("sd_to_target", session, c.L, BoolStr(r),
                         c.drivers \cup {"sdmux.to_target"})
                 /\ _sd_opened' = c.opened
                 /\ zdec' = IF c.reset THEN NoDecoder ELSE zdec
                 /\ bz2dec' = IF c.reset THEN NoDecoder ELSE bz2dec
                 /\ sd' = IF r THEN SD_ON_TARGET ELSE sd
    /\ UNCHANGED <<now, configVars, pwr, paused, _sd_mounted,
                   _sd_bytes_written, zdata, sink, status, streamVars,
                   clientVars>>

\* the answers of to_target()/to_host() are ignored; the status is read again
sd_toggle(session) ==
    /\ Idle
    /\ \E r \in BOOLEAN :
        LET L1 == _check_expired(Lease, session)
            sl == sd_locked(L1, session)
            s1 == sd_status_of(sl.L, session, sd)
            swap == sl.L.err = "" /\ ~sl.v /\ s1.L.err = ""
                    /\ s1.v \in {SD_ON_HOST, SD_ON_TARGET}
            card == IF ~swap \/ ~r THEN sd
                    ELSE IF s1.v = SD_ON_HOST THEN SD_ON_TARGET
                    ELSE SD_ON_HOST
            La == IF sl.L.err = "" /\ ~sl.v THEN s1.L ELSE sl.L
            s2 == sd_status_of(La, session, card)
        IN  /\ Done("sd_toggle", session, s2.L, s2.v,
                    IF ~swap THEN {}
                    ELSE IF s1.v = SD_ON_HOST THEN {"sdmux.to_target"}
                    ELSE {"sdmux.to_host"})
            /\ sd' = card
    /\ UNCHANGED <<now, configVars, pwr, paused, _sd_opened, _sd_mounted,
                   _sd_bytes_written, decVars, sink, status, streamVars,
                   clientVars>>

----------------------------------------------------------------------------
(* The compressed format and the two decompressors.  zlib and bz2 are      *)
(* libraries; what is modelled is what main.py relies on: decompress(data, *)
(* max_length) returns at most max_length of output, a zlib object hands   *)
(* the input it did not read back in unconsumed_tail, a BZ2Decompressor    *)
(* keeps it inside and tells through needs_input, and either may have      *)
(* read all its input while output is still waiting inside.                *)
(* One unit of compressed input <<v, n>> expands to n data units v; the    *)
(* stream ends with a trailer <<"E", n>> carrying the decoded length,      *)
(* which the decompressor checks (the gzip ISIZE, the bzip2 CRC).          *)

Tokens == {<<"a", 1>>, <<"b", MaxRun>>}
EOS(n) == <<"E", n>>
IsEOS(t) == t[1] = "E"
Expand(t) == [i \in 1..t[2] |-> t[1]]

\* the data a compressed stream stands for
RECURSIVE Decode(_)
Decode(ts) ==
    IF ts = <<>> \/ IsEOS(Head(ts)) THEN <<>>
    ELSE Expand(Head(ts)) \o Decode(Tail(ts))

Compress(p) == p \o <<EOS(Len(Decode(p)))>>

\* one complete stream
Images == {Compress(p) : p \in UNION {[1..k -> Tokens] : k \in 1..MaxTokens}}

\* two complete streams, one after the other
Pairs == {Compress(<<s>>) \o Compress(<<t>>) : s \in Tokens, t \in Tokens}

\* one decompress call: st = [out, pend, in, n, eof, err]
RECURSIVE Dec(_, _)
Dec(st, max) ==
    IF Len(st.out) = max THEN st
    ELSE IF st.pend # <<>>
         THEN Dec([st EXCEPT !.out = Append(@, Head(st.pend)),
                             !.pend = Tail(@)], max)
    ELSE IF st.in = <<>> THEN st
    ELSE IF IsEOS(Head(st.in))
         THEN IF Head(st.in)[2] = st.n
              THEN [st EXCEPT !.eof = TRUE, !.in = Tail(@)]
              ELSE [st EXCEPT !.err = TRUE]
    ELSE Dec([st EXCEPT !.pend = Expand(Head(st.in)),
                        !.n = @ + Head(st.in)[2],
                        !.in = Tail(@)], max)

\* zlib.decompressobj(16+zlib.MAX_WBITS)
zlib_new == [pend |-> <<>>, n |-> 0, eof |-> FALSE, unconsumed_tail |-> <<>>]

\* zdec.decompress(buf, max): input after the end of the stream is not read
zlib_decompress(z, buf, max) ==
    IF z.eof
    THEN [z |-> [z EXCEPT !.unconsumed_tail = <<>>], out |-> <<>>,
          err |-> FALSE]
    ELSE LET r == Dec([out |-> <<>>, pend |-> z.pend, in |-> buf, n |-> z.n,
                       eof |-> FALSE, err |-> FALSE], max)
         IN  [z |-> [pend |-> r.pend, n |-> r.n, eof |-> r.eof,
                     unconsumed_tail |-> IF r.eof THEN <<>> ELSE r.in],
              out |-> r.out, err |-> r.err]

\* bz2.BZ2Decompressor()
bz2_new == [pend |-> <<>>, n |-> 0, eof |-> FALSE, buf |-> <<>>,
            needs_input |-> TRUE, unused_data |-> <<>>]

\* bz2dec.decompress(buf, max) of a decompressor that is not at its end
bz2_decompress(b, buf, max) ==
    LET r == Dec([out |-> <<>>, pend |-> b.pend, in |-> b.buf \o buf,
                  n |-> b.n, eof |-> FALSE, err |-> FALSE], max)
    IN  [b |-> [pend |-> r.pend, n |-> r.n, eof |-> r.eof,
                buf |-> IF r.eof THEN <<>> ELSE r.in,
                needs_input |-> IF r.eof THEN FALSE ELSE r.in = <<>>,
                unused_data |-> IF r.eof THEN r.in ELSE <<>>],
         out |-> r.out, err |-> r.err]

----------------------------------------------------------------------------
(* The streaming writes.  The call enters the loop; every iteration of the *)
(* loop is one step, which takes one of StepTimes seconds.                 *)

StepTimes == {0, fbintvl \div 2, fbintvl}

\* a variant: the loop never gives the client an update
timebox_never(t0, t) == FALSE

\* (now - start) >= self.fbintvl
timebox_fired(t0, t) == (t - t0) >= fbintvl

\* time.monotonic() after a step that took dt seconds
Later(dt) == IF now + dt <= MaxLoopTime THEN now + dt ELSE now

\* a variant: every return reports 0
Return_zero(st) ==
    /\ pc' = "idle"
    /\ data' = <<>>
    /\ status' = 0
    /\ ret' = "status"

\* a write call returns
Return(st) ==
    /\ pc' = "idle"
    /\ data' = <<>>
    /\ status' = st
    /\ ret' = "status"

\* a write call raises
Raise(exc) ==
    /\ pc' = "idle"
    /\ data' = <<>>
    /\ ret' = exc
    /\ UNCHANGED status

\* sd_write_gz up to the loop; an empty buffer is replaced by self.zdata,
\* which __init__ does not create and every iteration sets to None
sd_write_gz(buf, session) ==
    /\ Idle
    /\ LET L1 == _check_expired(Lease, session)
           sub == IF Len(buf) = 0 THEN zdata ELSE <<"buf", buf>>
       IN  IF L1.err # "" THEN
               /\ Done("sd_write_gz", session, L1, "", {})
               /\ UNCHANGED <<zdec, status, streamVars>>
           ELSE IF ~sdmux_controller THEN
               /\ Done("sd_write_gz", session, L1, "status", {})
               /\ status' = -1
               /\ UNCHANGED <<zdec, streamVars>>
           ELSE
               /\ zdec' = IF zdec = NoDecoder THEN <<zlib_new>> ELSE zdec
               /\ IF sub[1] = "unset" THEN
                      /\ Done("sd_write_gz", session, L1, "AttributeError",
                              {})
                      /\ UNCHANGED <<status, streamVars>>
                  ELSE IF sub[1] = "None" THEN
                      /\ Done("sd_write_gz", session, L1, "TypeError", {})
                      /\ start' = now
                      /\ overdue' = 0
                      /\ UNCHANGED <<status, pc, data>>
                  ELSE
                      /\ Done("sd_write_gz", session, L1, "running", {})
                      /\ pc' = "gz"
                      /\ data' = sub[2]
                      /\ start' = now
                      /\ overdue' = 0
                      /\ UNCHANGED status
    /\ UNCHANGED <<now, configVars, pwr, sd, paused, _sd_opened, _sd_mounted,
                   _sd_bytes_written, bz2dec, zdata, sink>>

\* one iteration of the loop of sd_write_gz, _sd_write_gz included
gz_step ==
    /\ pc = "gz"
    /\ \E r \in BOOLEAN, dt \in StepTimes :
        LET d  == zlib_decompress(zdec[1], data, BlockUnits)
            st == IF ~r THEN -1
                  ELSE IF Len(d.z.unconsumed_tail) > 0 THEN 0
                  ELSE blksz
        IN  IF d.err THEN
                /\ Raise("zlib.error")
                /\ UNCHANGED <<now, zdec, zdata, sink, _sd_bytes_written,
                               drv, overdue>>
            ELSE
                /\ zdec' = <<d.z>>
                /\ drv' = drv \cup {"sdmux.write"}
                /\ sink' = IF r THEN sink \o d.out ELSE sink
                /\ _sd_bytes_written' =
                       IF r THEN _sd_bytes_written + Len(d.out)
                       ELSE _sd_bytes_written
                /\ now' = Later(dt)
                /\ overdue' = IF timebox_fired(start, now) THEN overdue + 1
                              ELSE overdue
                /\ IF st # 0 THEN
                       /\ zdata' = <<"None">>
                       /\ Return(st)
                   ELSE IF timebox_fired(start, Later(dt)) THEN
                       /\ zdata' = <<"buf", d.z.unconsumed_tail>>
                       /\ Return(0)
                   ELSE
                       /\ zdata' = <<"None">>
                       /\ data' = d.z.unconsumed_tail
                       /\ UNCHANGED <<pc, status, ret>>
    /\ UNCHANGED <<leaseVars, lastSeen, prev, call, configVars, pwr, sd,
                   paused, _sd_opened, _sd_mounted, bz2dec, start,
                   clientVars>>

\* sd_write_bz2 up to the loop
sd_write_bz2(buf, session) ==
    /\ Idle
    /\ LET L1 == _check_expired(Lease, session)
       IN  IF L1.err # "" THEN
               /\ Done("sd_write_bz2", session, L1, "", {})
               /\ UNCHANGED <<bz2dec, status, streamVars>>
           ELSE IF ~sdmux_controller THEN
               /\ Done("sd_write_bz2", session, L1, "status", {})
               /\ status' = -1
               /\ UNCHANGED <<bz2dec, streamVars>>
           ELSE
               /\ bz2dec' = IF bz2dec = NoDecoder THEN <<bz2_new>>
                            ELSE bz2dec
               /\ Done("sd_write_bz2", session, L1, "running", {})
               /\ pc' = "bz2"
               /\ data' = buf
               /\ start' = now
               /\ overdue' = 0
               /\ UNCHANGED status
    /\ UNCHANGED <<now, configVars, pwr, sd, paused, _sd_opened, _sd_mounted,
                   _sd_bytes_written, zdec, zdata, sink>>

\* one iteration of the loop of sd_write_bz2, _sd_write_bz2 included; a
\* decompressor at its end raises EOFError before it reads its argument
bz2_step ==
    /\ pc = "bz2"
    /\ \E r \in BOOLEAN, dt \in StepTimes :
        IF bz2dec[1].eof THEN
            /\ bz2dec' = <<bz2_new>>
            /\ now' = Later(dt)
            /\ IF Len(bz2dec[1].unused_data) > 0
               THEN /\ data' = bz2dec[1].unused_data
                    /\ UNCHANGED <<pc, status, ret>>
               ELSE Return(0)
            /\ UNCHANGED <<sink, _sd_bytes_written, drv, overdue>>
        ELSE
            LET d  == bz2_decompress(bz2dec[1], data, BlockUnits)
                st == IF ~r THEN -1
                      ELSE IF d.b.needs_input = FALSE THEN 0
                      ELSE blksz
            IN  IF d.err THEN
                    /\ Raise("OSError")
                    /\ UNCHANGED <<now, bz2dec, sink, _sd_bytes_written,
                                   drv, overdue>>
                ELSE
                    /\ bz2dec' = <<d.b>>
                    /\ drv' = drv \cup {"sdmux.write"}
                    /\ sink' = IF r THEN sink \o d.out ELSE sink
                    /\ _sd_bytes_written' =
                           IF r THEN _sd_bytes_written + Len(d.out)
                           ELSE _sd_bytes_written
                    /\ now' = Later(dt)
                    /\ overdue' = IF timebox_fired(start, now)
                                  THEN overdue + 1 ELSE overdue
                    /\ IF st # 0 THEN Return(st)
                       ELSE IF timebox_fired(start, Later(dt)) THEN Return(0)
                       ELSE /\ data' = <<>>
                            /\ UNCHANGED <<pc, status, ret>>
    /\ UNCHANGED <<leaseVars, lastSeen, prev, call, configVars, pwr, sd,
                   paused, _sd_opened, _sd_mounted, zdec, zdata, start,
                   clientVars>>

----------------------------------------------------------------------------
(* A client that streams one image inside an open/close bracket.  proto:   *)
(*   "closed"  it has not opened its bracket yet                           *)
(*   "done"    it has closed its bracket                                   *)
(*   "strict"  it has sent the next chunk after every positive status and  *)
(*             an empty buffer after every status 0                        *)
(*   "ok"      it has also sent the next chunk after a status 0            *)
(*   "off"     it has sent an empty buffer where no status 0 preceded      *)
(* It stops writing when a call reports a failure or raises and when it   *)
(* has sent an empty buffer out of turn, and keeps to one compression      *)
(* format within a bracket.                                                *)

ClientSession == "s1"

Chunks(seq) == {SubSeq(seq, 1, k) : k \in 1..Len(seq)}

LastWriteReturned ==
    call.op \in {"sd_write_gz", "sd_write_bz2"} /\ ret = "status"

MaySend ==
    /\ proto \notin {"closed", "done", "off"}
    /\ call.op = "sd_open" \/ (LastWriteReturned /\ status >= 0)

Sent(buf) ==
    /\ image' = image
    /\ rest' = SubSeq(rest, Len(buf) + 1, Len(rest))
    /\ proto' = IF LastWriteReturned /\ status = 0
                THEN IF buf # <<>> /\ proto = "strict" THEN "ok" ELSE proto
                ELSE IF buf = <<>> THEN "off" ELSE proto

ClientOpen ==
    /\ proto = "closed"
    /\ sd_open(ClientSession)
    /\ image' = image
    /\ rest' = image
    /\ proto' = IF _sd_opened' THEN "strict" ELSE "closed"

ClientClose ==
    /\ proto \notin {"closed", "done"}
    /\ sd_close(ClientSession)
    /\ proto' = "done"
    /\ UNCHANGED <<image, rest>>

ClientWriteGz ==
    /\ MaySend
    /\ bz2dec = NoDecoder
    /\ \E buf \in Chunks(rest) \cup {<<>>} :
           sd_write_gz(buf, ClientSession) /\ Sent(buf)

ClientWriteBz2 ==
    /\ MaySend
    /\ zdec = NoDecoder
    /\ \E buf \in Chunks(rest) \cup {<<>>} :
           sd_write_bz2(buf, ClientSession) /\ Sent(buf)

----------------------------------------------------------------------------
(* USB switches.  The switch drivers (package mtda.usb) are outside        *)
(* main.py: on(), off() and toggle() set the switch, status() reports it.  *)
(* ndx is 1-based; self.usb_switches[ndx-1] raises IndexError past the end *)
(* of the list, which the handlers catch and report on stderr.             *)

POWERED_ON == "ON"
POWERED_OFF == "OFF"

\* the registries load_config can build
UsbRegistries ==
    UNION {[1..n -> {POWERED_ON, POWERED_OFF}] : n \in 0..MaxSwitches}

\* the indexes callers pass
UsbIndexes == 0..(MaxSwitches + 1)

UsbSet == {"usb_on", "usb_off", "usb_toggle"}

\* what the switch driver's method makes of the switch
Switched(op, st) ==
    IF op = "usb_on" THEN POWERED_ON
    ELSE IF op = "usb_off" THEN POWERED_OFF
    ELSE IF st = POWERED_ON THEN POWERED_OFF ELSE POWERED_ON

\* usb_on, usb_off and usb_toggle have the same body up to the switch
\* method they call; they return None
usb_set(op, ndx, session) ==
    /\ Idle
    /\ LET L1 == _check_expired(Lease, session)
       IN  IF L1.err # "" THEN
               /\ Done(op, session, L1, "", {})
               /\ UNCHANGED usb_switches
           ELSE IF ~(ndx > 0) THEN
               /\ Done(op, session, L1, "None", {})
               /\ UNCHANGED usb_switches
           ELSE IF ndx - 1 >= Len(usb_switches) THEN
               /\ Done(op, session, L1, "None", {"stderr.print"})
               /\ UNCHANGED usb_switches
           ELSE
               /\ Done(op, session, L1, "None", {"usb." \o op})
               /\ usb_switches' =
                      [usb_switches EXCEPT ![ndx] = Switched(op, @)]
    /\ UNCHANGED <<now, power_controller, sdmux_controller, console_logger,
                   pwr, sd, paused, _sd_opened, _sd_mounted,
                   _sd_bytes_written, decVars, sink, status, streamVars,
                   clientVars>>

usb_status(ndx, session) ==
    /\ Idle
    /\ LET L1 == _check_expired(Lease, session)
       IN  IF L1.err # "" THEN Done("usb_status", session, L1, "", {})
           ELSE IF ~(ndx > 0)
                THEN Done("usb_status", session, L1, "???", {})
           ELSE IF ndx - 1 >= Len(usb_switches)
                THEN Done("usb_status", session, L1, "ERR", {"stderr.print"})
           ELSE Done("usb_status", session, L1, usb_switches[ndx],
                     {"usb.status"})
    /\ UNCHANGED <<now, configVars, pwr, sd, paused, _sd_opened, _sd_mounted,
                   _sd_bytes_written, decVars, sink, status, streamVars,
                   clientVars>>

usb_ports(session) ==
    /\ Idle
    /\ LET L1 == _check_expired(Lease, session)
       IN  /\ Done("usb_ports", session, L1, "status", {})
           /\ status' = IF L1.err # "" THEN status ELSE Len(usb_switches)
    /\ UNCHANGED <<now, configVars, pwr, sd, paused, _sd_opened, _sd_mounted,
                   _sd_bytes_written, decVars, sink, streamVars, clientVars>>

----------------------------------------------------------------------------
(* Time passes between requests, half a lease at a time.  call, ret, drv   *)
(* and prev describe the request served at the current clock reading.      *)

NoCall == [op |-> "none", session |-> None]
NoLease == [owner |-> None, expiry |-> <<>>, seen |-> 0]

Tick ==
    /\ Idle
    /\ now + ((_lock_timeout * 60) \div 2) <= MaxTime
    /\ now' = now + ((_lock_timeout * 60) \div 2)
    /\ call' = NoCall
    /\ ret' = ""
    /\ drv' = {}
    /\ prev' = NoLease
    /\ UNCHANGED <<leaseVars, lastSeen, configVars, pwr, sd, paused,
                   _sd_opened, _sd_mounted, _sd_bytes_written, decVars, sink,
                   status, streamVars,
                   clientVars>>

----------------------------------------------------------------------------
(* The agent after __init__, load_config and start. *)

InitFields ==
    /\ now = 0
    /\ _lock_owner = None
    /\ _lock_expiry = <<>>
    /\ _sd_bytes_written = 0
    /\ _sd_mounted = FALSE
    /\ _sd_opened = FALSE
    /\ bz2dec = NoDecoder
    /\ zdec = NoDecoder
    /\ zdata = <<"unset">>
    /\ power_controller \in BOOLEAN
    /\ sdmux_controller \in BOOLEAN
    /\ console_logger \in BOOLEAN
    /\ pwr \in IF power_controller THEN {POWER_ON, POWER_OFF, "???"}
               ELSE {"???"}
    /\ sd \in IF sdmux_controller THEN {SD_ON_HOST, SD_ON_TARGET}
              ELSE {"???"}
    /\ paused = FALSE
    /\ sink = <<>>
    /\ call = NoCall
    /\ ret = ""
    /\ drv = {}
    /\ prev = NoLease
    /\ lastSeen = 0
    /\ pc = "idle"
    /\ data = <<>>
    /\ start = 0
    /\ overdue = 0
    /\ status = 0

\* no USB switch is configured
InitAgent ==
    /\ InitFields
    /\ usb_switches = <<>>

\* no streaming client
Init ==
    /\ InitAgent
    /\ image = <<>>
    /\ rest = <<>>
    /\ proto = "closed"

LeaseOps ==
    \/ \E s \in Callers : target_lock(s)
    \/ \E s \in Callers : target_unlock(s)
    \/ \E s \in Callers : target_locked(s)

PowerOps ==
    \/ \E s \in Callers : target_on(s)
    \/ \E s \in Callers : target_off(s)
    \/ \E s \in Callers : target_toggle(s)
    \/ \E s \in Callers : target_status(s)

ConsoleOps ==
    \E s \in Callers, op \in ConsoleGated : console_gated(op, s)

SwapOps ==
    \/ \E s \in Callers : sd_to_host(s)
    \/ \E s \in Callers : sd_to_target(s)
    \/ \E s \in Callers : sd_toggle(s)

\* sd_open and sd_close in the specifications without a streaming client
BracketOps ==
    \/ \E s \in Callers : sd_open(s) /\ UNCHANGED clientVars
    \/ \E s \in Callers : sd_close(s) /\ UNCHANGED clientVars

RawOps ==
    \/ \E s \in Callers : sd_mount(s)
    \/ \E s \in Callers, o \in {0, 1}, b \in RawBuffers : sd_update(o, b, s)
    \/ \E s \in Callers, b \in RawBuffers : sd_write_raw(b, s)
    \/ \E s \in Callers : sd_bytes_written(s)
    \/ \E s \in Callers : sd_status(s)

\* the lease and everything it gates
Next == Tick \/ LeaseOps \/ PowerOps \/ ConsoleOps \/ SwapOps

Spec == Init /\ [][Next]_vars

\* the mux legality gate: lease, power, write bracket and swaps
NextMux ==
    \/ Tick
    \/ \E s \in Callers : target_lock(s)
    \/ \E s \in Callers : target_unlock(s)
    \/ \E s \in Callers : target_on(s)
    \/ \E s \in Callers : target_off(s)
    \/ BracketOps
    \/ SwapOps

SpecMux == Init /\ [][NextMux]_vars

\* the lease and the write-side mux operations
NextWrite ==
    \/ \E s \in Callers : target_lock(s)
    \/ BracketOps
    \/ RawOps

SpecWrite == Init /\ [][NextWrite]_vars

\* some USB switches, no other driver
InitUsb ==
    /\ InitFields
    /\ ~power_controller
    /\ ~sdmux_controller
    /\ ~console_logger
    /\ usb_switches \in UsbRegistries
    /\ image = <<>>
    /\ rest = <<>>
    /\ proto = "closed"

NextUsb ==
    \/ \E s \in Callers : target_lock(s)
    \/ \E s \in Callers : target_unlock(s)
    \/ \E s \in Callers, n \in UsbIndexes, op \in UsbSet : usb_set(op, n, s)
    \/ \E s \in Callers, n \in UsbIndexes : usb_status(n, s)
    \/ \E s \in Callers : usb_ports(s)

SpecUsb == InitUsb /\ [][NextUsb]_vars

\* a mux driver, no lease, and a client with something to stream
InitStream ==
    /\ InitAgent
    /\ sdmux_controller
    /\ ~power_controller
    /\ ~console_logger
    /\ sd = SD_ON_HOST
    /\ image \in Images \cup Pairs
    /\ rest = image
    /\ proto = "closed"

NextStream ==
    \/ ClientOpen
    \/ ClientClose
    \/ ClientWriteGz
    \/ ClientWriteBz2
    \/ gz_step
    \/ bz2_step

\* a loop that has started runs on: nothing else is served meanwhile
SpecStream ==
    /\ InitStream
    /\ [][NextStream]_vars
    /\ WF_vars(gz_step)
    /\ WF_vars(bz2_step)

----------------------------------------------------------------------------
(* Properties of the lease *)

LeaseLen == _lock_timeout * 60

GatedOps == {"target_lock", "target_on", "target_off", "target_toggle",
             "sd_to_host", "sd_to_target", "sd_toggle"} \cup ConsoleGated

\* what a refused gated call answers; sd_toggle answers the mux status
LockedSentinel(op) ==
    IF op = "target_toggle" THEN {POWER_LOCKED}
    ELSE IF op \in ConsoleGated THEN {"None"}
    ELSE IF op = "sd_toggle" THEN {SD_ON_HOST, SD_ON_TARGET, "???"}
    ELSE {"False"}

\* the console bookkeeping calls are not driver calls
HardwareCalls(d) ==
    d \ {"logger.resume", "logger.pause", "logger.reset_timer"}

\* the lease the call found had an expiry that had not been reached
FoundUnexpired == prev.expiry # <<>> /\ now < prev.expiry[1]

\* C1: while session A holds the lease (A has not unlocked, and less than a
\* full timeout has passed since A acquired it or last called), every
\* lease-gated call by another session answers the locked sentinel and
\* invokes no driver.
C1_MutualExclusion ==
    (/\ call.op \in GatedOps
     /\ prev.owner \in Sessions
     /\ call.session # prev.owner
     /\ now < prev.seen + LeaseLen)
    => (/\ ret \in LockedSentinel(call.op)
        /\ HardwareCalls(drv) = {}
        /\ _lock_owner = prev.owner)

\* C2: target_lock answers True or False and never raises; with no owner it
\* answers True and the caller owns the lease; right after the owner's
\* acquisition another session gets False and the owner stays; once a full
\* timeout has passed without a call of the owner another session gets True
\* and becomes the owner.
C2_LockScenario ==
    call.op = "target_lock" =>
        /\ ret \in {"True", "False"}
        /\ prev.owner = None => (ret = "True" /\ _lock_owner = call.session)
        /\ (/\ prev.owner \in Sessions
            /\ call.session # prev.owner
            /\ now = prev.seen)
           => (ret = "False" /\ _lock_owner = prev.owner)
        /\ (/\ prev.owner \in Sessions
            /\ call.session # prev.owner
            /\ now >= prev.seen + LeaseLen)
           => (ret = "True" /\ _lock_owner = call.session)

\* C3: whenever the lease has an owner, the expiry is set and is the time of
\* the owner's acquisition or latest call plus the timeout.
C3_LeaseInvariant ==
    _lock_owner # None =>
        /\ _lock_expiry # <<>>
        /\ _lock_expiry[1] = lastSeen + LeaseLen

\* C4 as stated: a call of the owner before the expiry renews the lease; a
\* call of the owner at or after the expiry finds no owner once the expiry
\* check has run (until it calls target_lock again).
C4_LapsedOwnerFindsNoOwner ==
    (/\ prev.owner \in Sessions
     /\ call.session = prev.owner
     /\ prev.expiry # <<>>)
    => IF now < prev.expiry[1]
       THEN _lock_expiry = <<now + LeaseLen>>
       ELSE call.op # "target_lock" => _lock_owner = None

\* C4, amended: every call of the owner, before or after the expiry, sets
\* the expiry to now + timeout and leaves it the owner (target_unlock aside);
\* the owner loses the lease without unlocking only when a call of another
\* session finds now >= expiry.
C4_OwnerCallRenews ==
    /\ (prev.owner \in Sessions /\ call.session = prev.owner)
       => (/\ _lock_expiry = <<now + LeaseLen>>
           /\ call.op # "target_unlock" => _lock_owner = prev.owner)
    /\ (prev.owner \in Sessions /\ _lock_owner # prev.owner)
       => \/ call.session = prev.owner /\ call.op = "target_unlock"
          \/ (/\ call.session # prev.owner
              /\ prev.expiry # <<>>
              /\ now >= prev.expiry[1])

\* the owner called after its expiry had passed and still holds the lease
C4_Witness ==
    /\ prev.owner \in Sessions
    /\ call.session = prev.owner
    /\ call.op \in {"target_on", "sd_to_host", "target_locked"}
    /\ prev.expiry # <<>>
    /\ now >= prev.expiry[1]
    /\ _lock_owner = prev.owner
    /\ _lock_expiry = <<now + LeaseLen>>

\* C5: target_unlock answers True only to the owner, and then owner and
\* expiry are both cleared; to any other session it answers False and
\* leaves the owner and expiry of an unexpired lease as they were.
C5_Unlock ==
    call.op = "target_unlock" =>
        /\ ret = "True" =>
              (/\ call.session = prev.owner
               /\ _lock_owner = None
               /\ _lock_expiry = <<>>)
        /\ call.session # prev.owner =>
              (/\ ret = "False"
               /\ FoundUnexpired =>
                     (/\ _lock_owner = prev.owner
                      /\ _lock_expiry = prev.expiry))

----------------------------------------------------------------------------
(* Properties of the mux *)

SwapCalls == {"sdmux.to_host", "sdmux.to_target"}

MuxMutating == {"sdmux.open", "sdmux.close", "sdmux.mount", "sdmux.update",
                "sdmux.write"}

\* C6: the mux driver's to_host()/to_target() is invoked only by sd_to_host,
\* sd_to_target or sd_toggle, with the power driver reporting OFF, no write
\* session open, both drivers configured and no other session holding the
\* lease.  None of the three handlers changes the power state, the opened
\* flag or the owner after the swap, so the state the call leaves is the
\* state the driver was invoked in.
C6_MuxLegality ==
    drv \cap SwapCalls # {} =>
        /\ call.op \in {"sd_to_host", "sd_to_target", "sd_toggle"}
        /\ power_controller /\ sdmux_controller
        /\ pwr = POWER_OFF
        /\ ~_sd_opened
        /\ _lock_owner \in {None, call.session}
        /\ prev.owner \in {None, call.session} \/ FoundUnexpired = FALSE

\* the holder of the lease swapped the card over to the target
C6_Witness ==
    /\ call.op = "sd_toggle"
    /\ drv = {"sdmux.to_target"}
    /\ call.session \in Sessions
    /\ _lock_owner = call.session
    /\ sd = SD_ON_TARGET
    /\ pwr = POWER_OFF

\* C7: while session A holds an unexpired lease, sd_open, sd_close,
\* sd_mount, sd_update and the sd_write calls of another session invoke none
\* of the mux driver's open/close/mount/update/write.
C7_MuxOpsLeaseGated ==
    (/\ call.op \in {"sd_open", "sd_close", "sd_mount", "sd_update",
                     "sd_write_raw", "sd_write_gz", "sd_write_bz2"}
     /\ prev.owner \in Sessions
     /\ call.session # prev.owner
     /\ FoundUnexpired)
    => drv \cap MuxMutating = {}

\* C8: the mux driver's write() is invoked only while a write session is
\* open.  No write call changes the opened flag.
C8_WriteOnlyWhenOpened ==
    "sdmux.write" \in drv => _sd_opened

----------------------------------------------------------------------------
(* The write cursor: one session takes and drops the lease and opens,      *)
(* closes and writes in any order, raw and compressed.  The compressed     *)
(* writes are fed from one stream, from its start after every sd_open      *)
(* that reset the decompressors; here an iteration of the loops takes no   *)
(* measurable time.                                                        *)

\* the stream a bracket is fed from
CursorImage == Compress(<<<<"b", MaxRun>>>>)

InitCursor ==
    /\ InitAgent
    /\ ~power_controller
    /\ ~console_logger
    /\ image = CursorImage
    /\ rest = image
    /\ proto = "closed"

\* what is left of the stream after buf has been submitted
Fed(buf) ==
    /\ rest' = SubSeq(rest, Len(buf) + 1, Len(rest))
    /\ UNCHANGED <<image, proto>>

CursorOpen ==
    /\ sd_open(ClientSession)
    /\ rest' = IF zdec' = NoDecoder /\ bz2dec' = NoDecoder THEN image
               ELSE rest
    /\ UNCHANGED <<image, proto>>

CursorWriteGz ==
    \E b \in Chunks(rest) \cup {<<>>} :
        /\ Len(sink) <= MaxBytes
        /\ _sd_bytes_written <= MaxBytes
        /\ sd_write_gz(b, ClientSession)
        /\ Fed(b)

CursorWriteBz2 ==
    \E b \in Chunks(rest) \cup {<<>>} :
        /\ Len(sink) <= MaxBytes
        /\ _sd_bytes_written <= MaxBytes
        /\ sd_write_bz2(b, ClientSession)
        /\ Fed(b)

NextCursor ==
    \/ target_lock(ClientSession)
    \/ target_unlock(ClientSession)
    \/ CursorOpen
    \/ sd_close(ClientSession) /\ UNCHANGED clientVars
    \/ \E o \in {0, 1}, b \in RawBuffers : sd_update(o, b, ClientSession)
    \/ \E b \in RawBuffers : sd_write_raw(b, ClientSession)
    \/ CursorWriteGz
    \/ CursorWriteBz2
    \/ gz_step /\ now' = now
    \/ bz2_step /\ now' = now

SpecCursor == InitCursor /\ [][NextCursor]_vars

----------------------------------------------------------------------------
(* Streaming                                                                *)

IsPrefix(a, b) == Len(a) <= Len(b) /\ SubSeq(b, 1, Len(a)) = a

\* the client streams one compressed stream and kept to the protocol of the
\* write calls
KeptProtocol == image \in Images /\ proto \in {"strict", "ok"}

\* the whole image has been submitted and the last call asked for more
Completed ==
    /\ KeptProtocol
    /\ Idle
    /\ rest = <<>>
    /\ LastWriteReturned
    /\ status = blksz

\* C9: within one bracket, for every fragmentation of a compressed stream
\* and every choice of time-boxed returns, a caller who after a status 0
\* sends the next chunk or an empty buffer gets the decoded stream, in
\* order and with nothing dropped, at the write sink, and at completion the
\* sink holds all of it and bytesWritten is its length.
C9_StreamingOrderAndCompleteness ==
    /\ KeptProtocol => IsPrefix(sink, Decode(image))
    /\ Completed => /\ sink = Decode(image)
                    /\ _sd_bytes_written = Len(Decode(image))

\* the same for a caller who only ever answers a status 0 with an empty
\* buffer
StrictStreaming ==
    /\ (KeptProtocol /\ proto = "strict") => IsPrefix(sink, Decode(image))
    /\ (Completed /\ proto = "strict") =>
           /\ sink = Decode(image)
           /\ _sd_bytes_written = Len(Decode(image))

StrictCompleted == Completed /\ proto = "strict" /\ Len(image) > 2

\* an iteration of either loop that decoded and wrote
DecodeAndWriteStep ==
    /\ pc # "idle"
    /\ ~(pc = "bz2" /\ bz2dec[1].eof)

\* the loop check after a decode-and-write step ends the call once the
\* loop has run for the feedback interval, and a call that the check ends
\* keeps the input it has not decoded
YieldStep ==
    /\ (DecodeAndWriteStep /\ pc' = pc) => (now' - start) < fbintvl
    /\ (DecodeAndWriteStep /\ pc = "gz" /\ pc' = "idle" /\ ret' = "status"
            /\ status' = 0) =>
           /\ (now' - start) >= fbintvl
           /\ zdata' = <<"buf", zdec'[1].unconsumed_tail>>
           /\ zdata'[2] # <<>>
    /\ (DecodeAndWriteStep /\ pc = "bz2" /\ pc' = "idle" /\ ret' = "status"
            /\ status' = 0) =>
           /\ bz2dec'[1].needs_input = FALSE
           /\ bz2dec'[1].eof \/ bz2dec'[1].buf # <<>>

\* C10: every call of sd_write_gz or sd_write_bz2 returns, and once the
\* loop has run for the feedback interval the call returns at its next loop
\* check, after no more than one further decode-and-write step, with status
\* 0 and with the input it has not decoded kept for the next call.
C10_TimeBoxedYield ==
    /\ [][YieldStep]_vars
    /\ [](overdue <= 1)
    /\ (pc # "idle") ~> (pc = "idle")

\* a call the time-box ended while input was left to decode
C10_Witness ==
    /\ Idle
    /\ call.op = "sd_write_gz"
    /\ ret = "status"
    /\ status = 0
    /\ (now - start) >= fbintvl
    /\ zdata[1] = "buf"
    /\ Len(zdata[2]) > 1


\* the data of all the streams of an image, one after the other
RECURSIVE Contents(_)
Contents(ts) ==
    IF ts = <<>> THEN <<>>
    ELSE IF IsEOS(Head(ts)) THEN Contents(Tail(ts))
    ELSE Expand(Head(ts)) \o Contents(Tail(ts))

\* the client streams two bzip2 streams and kept to the protocol
TwoStreamsBz2 ==
    /\ image \in Pairs
    /\ proto \in {"strict", "ok"}
    /\ zdec = NoDecoder
    /\ call.op \in {"sd_open", "sd_write_bz2"}

\* C11: for two concatenated bzip2 streams fed in any fragmentation, the
\* stream boundary falling on a call boundary or on a time-boxed return
\* included, the sink receives the contents of both streams in order, no
\* call raises, no chunk of the caller is discarded, and when all of it has
\* been submitted and the pipeline asks for more the sink holds both
\* contents.
C11_MultiStreamBz2 ==
    TwoStreamsBz2 =>
        /\ IsPrefix(sink, Contents(image))
        /\ ret # "OSError"
        /\ (Idle /\ rest = <<>> /\ LastWriteReturned /\ status = blksz)
               => sink = Contents(image)

\* the same for a caller who answers every status 0 with an empty buffer
StrictMultiStreamBz2 ==
    (TwoStreamsBz2 /\ proto = "strict") =>
        /\ IsPrefix(sink, Contents(image))
        /\ ret # "OSError"
        /\ (Idle /\ rest = <<>> /\ LastWriteReturned /\ status = blksz)
               => sink = Contents(image)


----------------------------------------------------------------------------
(* The write cursor                                                        *)

\* the step is an sd_update that begins at offset 0
UpdateAtZero == \E b \in RawBuffers, s \in Callers : sd_update(0, b, s)

\* the call served by the step returned, it did not raise
Returned(op) ==
    /\ call'.op = op
    /\ ret' \in {"True", "False", "status"}

BytesWrittenStep ==
    /\ _sd_bytes_written' < _sd_bytes_written =>
           call'.op = "sd_open" \/ (call'.op = "sd_update" /\ UpdateAtZero)
    /\ (Returned("sd_open") /\ Idle /\ sdmux_controller) =>
           _sd_bytes_written' = 0
    /\ (Returned("sd_update") /\ sdmux_controller /\ UpdateAtZero) =>
           _sd_bytes_written' = IF status' > 0 THEN status' ELSE 0

\* C12: bytesWritten never decreases across sd_write_raw, sd_write_gz,
\* sd_write_bz2, sd_update, sd_close and lease operations, except that it is
\* reset to 0 by an sd_open with a mux driver configured and by an sd_update
\* that begins at offset 0 (which then adds what the driver wrote).
C12_BytesWrittenMonotonic == [][BytesWrittenStep]_vars

\* an sd_update at offset 0 restarted a count that compressed writes had
\* taken above one buffer
C12_Witness ==
    /\ call.op = "sd_update"
    /\ ret = "status"
    /\ status = MaxRaw
    /\ _sd_bytes_written = MaxRaw
    /\ Len(sink) > MaxRaw
    /\ _sd_opened


\* the step ends one of the three write calls with a status
WriteReturns ==
    /\ call'.op \in {"sd_write_raw", "sd_write_gz", "sd_write_bz2"}
    /\ pc' = "idle"
    /\ ret' = "status"

\* what the step handed to the driver reached the sink and was counted
Accepted ==
    /\ IsPrefix(sink, sink')
    /\ _sd_bytes_written' - _sd_bytes_written = Len(sink') - Len(sink)

WriteReturnStep ==
    /\ \A b \in RawBuffers :
           (sd_write_raw(b, call'.session) /\ sdmux_controller) =>
               \/ /\ status' = 65536
                  /\ sink' = sink \o b
                  /\ _sd_bytes_written' = _sd_bytes_written + Len(b)
               \/ /\ status' = -1
                  /\ sink' = sink
                  /\ _sd_bytes_written' = _sd_bytes_written
    /\ (WriteReturns /\ ~sdmux_controller) =>
           /\ status' = -1
           /\ drv' = {}
           /\ UNCHANGED <<sink, _sd_bytes_written>>
    /\ (WriteReturns /\ sdmux_controller /\ status' < 0) =>
           /\ "sdmux.write" \in drv'
           /\ UNCHANGED <<sink, _sd_bytes_written>>
    /\ (WriteReturns /\ sdmux_controller /\ status' >= 0) => Accepted

\* C13: sd_write_raw hands its buffer unchanged to the driver and, when the
\* driver accepts it, adds len(data) to bytesWritten and returns 65536; a
\* write call (raw, gz, bz2) returns a negative status only with no mux
\* driver or when the driver's write failed, always does so then, and the
\* failing write leaves bytesWritten as it was.
C13_WriteReturnContract == [][WriteReturnStep]_vars

\* the driver refused a raw write after some data had been counted
C13_Witness ==
    /\ call.op = "sd_write_raw"
    /\ ret = "status"
    /\ status = -1
    /\ sdmux_controller
    /\ _sd_bytes_written > 0
    /\ Len(sink) = _sd_bytes_written


CloseStep ==
    call'.op = "sd_close" =>
        /\ ret' \in {"True", "False"}
        /\ ~_sd_opened'
        /\ call.op = "sd_close" =>
               /\ _sd_opened' = _sd_opened
               /\ _sd_bytes_written' = _sd_bytes_written
               /\ decVars' = decVars

\* C14: from any reachable state sd_close called twice in a row raises
\* nothing, the write session is not open after either call, and the second
\* call leaves opened, bytesWritten and the decoder state as the first call
\* left them.
C14_CloseIdempotent == [][CloseStep]_vars

\* the same for calls that get past the lease check and a driver whose
\* close() succeeds
CloseStepOfWillingDriver ==
    (/\ call'.op = "sd_close"
     /\ ret' # "TypeError"
     /\ ~(_sd_opened /\ _sd_opened')
     /\ call.op = "sd_close" => (ret # "TypeError" /\ ~_sd_opened)) => CloseStep

CloseIdempotentOfWillingDriver == [][CloseStepOfWillingDriver]_vars


----------------------------------------------------------------------------
(* Missing drivers                                                         *)

PowerCalls == {"target_on", "target_off", "target_toggle", "target_status"}

MuxCalls == {"sd_close", "sd_open", "sd_mount", "sd_update", "sd_write_raw",
             "sd_write_gz", "sd_write_bz2", "sd_status", "sd_to_host",
             "sd_to_target", "sd_toggle"}

\* C15: with no power driver target_on, target_off, target_toggle and
\* target_status answer a sentinel (False, LOCKED or "???") and do not
\* raise; with no mux driver every sd_ call answers its sentinel (False, a
\* negative status or "???") and does not raise, and no write session is
\* open and nothing is counted as written.
C15_UnavailableIsSentinel ==
    /\ (~power_controller /\ call.op \in PowerCalls) =>
           ret \in {"False", POWER_LOCKED, "???"}
    /\ (~sdmux_controller /\ call.op \in MuxCalls) =>
           \/ ret \in {"False", "???"}
           \/ ret = "status" /\ status < 0
    /\ ~sdmux_controller => (~_sd_opened /\ _sd_bytes_written = 0)


----------------------------------------------------------------------------
(* USB switches                                                            *)

\* what a call with index n has to do when n names no switch
Rejected(n, s) ==
    /\ \A op \in UsbSet :
           usb_set(op, n, s) =>
               /\ ret' = "None"
               /\ drv' = {"stderr.print"}
               /\ usb_switches' = usb_switches
    /\ usb_status(n, s) =>
           /\ ret' = "ERR"
           /\ drv' = {"stderr.print"}
           /\ usb_switches' = usb_switches

UsbInvalidStep ==
    \A n \in UsbIndexes, s \in Callers :
        (n = 0 \/ n > Len(usb_switches)) => Rejected(n, s)

\* C16: usb_on, usb_off, usb_toggle and usb_status with index 0 or an index
\* above the number of switches return without raising, call no switch
\* driver, leave every switch as it was and report the index as an error,
\* usb_status by returning "ERR".
C16_UsbInvalidIndex == [][UsbInvalidStep]_vars

\* the same for indexes past the end of the registry, in calls that get
\* past the lease check
UsbPastEndStep ==
    \A n \in UsbIndexes, s \in Callers :
        (n > Len(usb_switches) /\ ret' # "TypeError") => Rejected(n, s)

UsbPastEnd == [][UsbPastEndStep]_vars


----------------------------------------------------------------------------
(* The status of sd_write_gz                                               *)

\* an iteration of the gzip loop whose decoded block the driver accepted
GzDecodedAndWrote ==
    /\ pc = "gz"
    /\ ret' # "zlib.error"
    /\ ~(pc' = "idle" /\ status' < 0)

\* the iteration went round: the remainder is fed back in
GzLoops ==
    /\ pc' = "gz"
    /\ data' = zdec'[1].unconsumed_tail
    /\ (now' - start) < fbintvl

\* the time-box ended the call with the remainder cached
GzYields ==
    /\ pc' = "idle"
    /\ ret' = "status"
    /\ status' = 0
    /\ (now' - start) >= fbintvl
    /\ zdata' = <<"buf", zdec'[1].unconsumed_tail>>

\* what the call reports when the step left no remainder
GzReports(st) ==
    GzDecodedAndWrote =>
        IF zdec'[1].unconsumed_tail = <<>>
        THEN pc' = "idle" /\ ret' = "status" /\ status' = st
        ELSE GzLoops \/ GzYields

\* C17: when a decode-and-write step of sd_write_gz leaves no unconsumed
\* remainder of the buffer the call reports status 0; when a remainder
\* exists the call loops, feeding the remainder back in, until it is
\* drained or the time-box fires.
C17_GzipStatusZeroWhenExhausted == [][GzReports(0)]_vars

\* C17, amended: when the step leaves no remainder the call returns the
\* block size 65536; when a remainder exists the call loops, feeding the
\* remainder back in, until it is drained or the time-box fires, and only
\* then does it return 0, with the remainder cached.
C17_GzipStatusBlockSizeWhenExhausted == [][GzReports(65536)]_vars

\* a call of sd_write_gz that drained its buffer
C17_Witness ==
    /\ Idle
    /\ call.op = "sd_write_gz"
    /\ ret = "status"
    /\ status = 65536
    /\ zdec # NoDecoder
    /\ zdec[1].unconsumed_tail = <<>>
    /\ sink # <<>>


\* sd_write_gz is called with an empty buffer
EmptyBufferStep ==
    (sdmux_controller /\ \E s \in Callers : sd_write_gz(<<>>, s)) =>
        /\ ret' \in {"running", "status"}
        /\ IF zdata[1] = "buf"
           THEN pc' = "gz" /\ data' = zdata[2]
           ELSE /\ UNCHANGED <<sink, _sd_bytes_written>>
                /\ pc' = "gz" => data' = <<>>

\* C18: with a mux driver configured, in every reachable state (the first
\* sd_write_gz call of the agent and a call after a return the time-box did
\* not cause included), sd_write_gz with an empty buffer takes the tail the
\* previous call cached if there is one and otherwise decodes nothing, and
\* returns an integer status; it does not raise.
C18_EmptyBufferContinuation == [][EmptyBufferStep]_vars

\* the same for the call that answers a time-boxed return with status 0
EmptyBufferAfterYieldStep ==
    (LastWriteReturned /\ status = 0 /\ call.op = "sd_write_gz") =>
        EmptyBufferStep

EmptyBufferAfterYield == [][EmptyBufferAfterYieldStep]_vars


\* C19: after an sd_close or an sd_open that reached the mux driver the
\* gzip and bzip2 decoders are None and no tail is cached, and after such an
\* sd_open bytesWritten is 0 and opened is the answer of the driver's
\* open(); nothing of an earlier bracket is left to be written in a later
\* one.
C19_WriteCursorLifecycle ==
    (sdmux_controller /\ call.op \in {"sd_close", "sd_open"}
        /\ ret \in {"True", "False"}) =>
        /\ zdec = NoDecoder
        /\ bz2dec = NoDecoder
        /\ zdata[1] # "buf"
        /\ call.op = "sd_open" =>
               /\ _sd_bytes_written = 0
               /\ _sd_opened = (ret = "True")

\* the same without the cached tail
WriteCursorLifecycleOfDecoders ==
    (sdmux_controller /\ call.op \in {"sd_close", "sd_open"}
        /\ ret \in {"True", "False"}) =>
        /\ zdec = NoDecoder
        /\ bz2dec = NoDecoder
        /\ call.op = "sd_open" =>
               /\ _sd_bytes_written = 0
               /\ _sd_opened = (ret = "True")


----------------------------------------------------------------------------
(* Console bookkeeping                                                     *)

\* the call reached the power driver: its caller was not locked out
PowerDriven == drv \cap {"power.on", "power.off", "power.toggle"} # {}

\* the call left the target ON / OFF
TurnedOn ==
    \/ call.op = "target_on" /\ ret = "True"
    \/ call.op = "target_toggle" /\ ret = POWER_ON

TurnedOff ==
    \/ call.op = "target_off" /\ ret \in {"True", "AttributeError"}
    \/ call.op = "target_toggle" /\ ret = POWER_OFF

\* C20: when target_on, target_off or target_toggle by a caller who is not
\* locked out leaves the target ON console logging is resumed, when it
\* leaves it OFF logging is paused, and target_off and target_toggle return
\* the driver's result and do not raise, with or without a console logger.
C20_ConsoleBookkeeping ==
    PowerDriven =>
        /\ (console_logger /\ TurnedOn) => ~paused
        /\ (console_logger /\ TurnedOff) => paused
        /\ call.op \in {"target_off", "target_toggle"} =>
               ret \in {"True", "False", POWER_ON, POWER_OFF, "???"}

\* the same for target_on, and for target_off with a console logger
ConsoleBookkeepingOfOnAndOff ==
    (PowerDriven /\ console_logger
        /\ call.op \in {"target_on", "target_off"}) =>
        /\ TurnedOn => ~paused
        /\ TurnedOff => paused
        /\ ret \in {"True", "False"}

-----------------------------------------------------------------------------
(* Write sessions and the lease                                            *)
(*                                                                         *)
(* A board with a power driver and a mux: sessions take and lose the       *)
(* lease while time passes, one of them streams a compressed image, and    *)
(* any caller may open, close, swap or switch the power.                   *)

InitAbandon ==
    /\ InitAgent
    /\ power_controller
    /\ sdmux_controller
    /\ ~console_logger
    /\ pwr = POWER_OFF
    /\ sd = SD_ON_HOST
    /\ image = CursorImage
    /\ rest = image
    /\ proto = "closed"

AbandonOpen(session) ==
    /\ sd_open(session)
    /\ rest' = IF zdec' = NoDecoder /\ bz2dec' = NoDecoder THEN image
               ELSE rest
    /\ UNCHANGED <<image, proto>>

\* the streaming session writes under its own lease
AbandonWriteGz ==
    /\ _lock_owner = ClientSession
    /\ CursorWriteGz

NextAbandon ==
    \/ Tick
    \/ \E s \in Sessions : target_lock(s)
    \/ \E s \in Sessions : AbandonOpen(s)
    \/ \E s \in Sessions : sd_close(s) /\ UNCHANGED clientVars
    \/ AbandonWriteGz
    \/ gz_step /\ now' = now
    \/ SwapOps

SpecAbandon == InitAbandon /\ [][NextAbandon]_vars


\* the calls that open, close or write to the card
WriteSideOps == {"sd_open", "sd_close", "sd_update", "sd_write_raw",
                 "sd_write_gz", "sd_write_bz2"}

AbandonedSessionStep ==
    _sd_opened =>
        /\ call'.op \notin {"sd_open", "sd_close"} => _sd_opened'
        /\ call'.op \notin WriteSideOps =>
               /\ UNCHANGED <<_sd_bytes_written, zdec, bz2dec, zdata>>
               /\ drv' \cap SwapCalls = {}
               /\ sd' = sd

\* C21: while a write session is open, whatever happens to the lease (it
\* expires, it is cleared, another session takes it), only sd_open and
\* sd_close end the session, only the write-side calls touch the byte count
\* and the decoders, and no swap of any session, the new owner included,
\* reaches the mux.
C21_AbandonedSessionSurvives == [][AbandonedSessionStep]_vars

\* the second session owns the lease of a powered-off board, and its swap is
\* refused because of the half-written session the first one left open
C21_Witness ==
    /\ _sd_opened
    /\ zdec # NoDecoder
    /\ _sd_bytes_written > 0
    /\ pwr = POWER_OFF
    /\ now >= LeaseLen
    /\ _lock_owner = "s2"
    /\ call = [op |-> "sd_to_host", session |-> "s2"]
    /\ ret = "False"

-----------------------------------------------------------------------------
(* The lock owner                                                          *)
(*                                                                         *)
(* Every facade call of every caller on a board with a power driver and a  *)
(* mux, while time passes.                                                 *)

InitFrame ==
    /\ InitFields
    /\ power_controller
    /\ sdmux_controller
    /\ ~console_logger
    /\ pwr = POWER_OFF
    /\ sd = SD_ON_HOST
    /\ usb_switches = <<>>
    /\ image = <<>>
    /\ rest = <<>>
    /\ proto = "closed"

NextFrame ==
    \/ Tick
    \/ LeaseOps
    \/ PowerOps
    \/ ConsoleOps
    \/ SwapOps
    \/ BracketOps
    \/ \E s \in Callers : sd_mount(s)
    \/ \E s \in Callers : sd_update(0, <<>>, s)
    \/ \E s \in Callers : sd_write_raw(<<>>, s)
    \/ \E s \in Callers : sd_bytes_written(s)
    \/ \E s \in Callers : sd_status(s)
    \/ \E s \in Callers, op \in UsbSet : usb_set(op, 1, s)
    \/ \E s \in Callers : usb_status(1, s)
    \/ \E s \in Callers : usb_ports(s)

SpecFrame == InitFrame /\ [][NextFrame]_vars

\* the call of this step is by a caller other than the owner, and the
\* expiry of the lease has been reached
ExpiryClears ==
    /\ _lock_owner # None
    /\ call'.op # "none"
    /\ call'.session # _lock_owner
    /\ _lock_expiry # <<>>
    /\ now >= _lock_expiry[1]

OwnerStep ==
    /\ _lock_owner' # _lock_owner =>
          \/ /\ call'.op = "target_lock"
             /\ ret' = "True"
             /\ _lock_owner' = call'.session
             /\ _lock_owner = None \/ ExpiryClears
          \/ /\ call'.op = "target_unlock"
             /\ ret' = "True"
             /\ call'.session = _lock_owner
             /\ _lock_owner' = None
          \/ /\ ExpiryClears
             /\ _lock_owner' = None
    /\ (/\ call'.op \in GatedOps
        /\ _lock_owner' \notin {None, call'.session}) =>
          _lock_owner' = _lock_owner

\* C22: the lock owner changes only when a target_lock that answers True
\* sets it to its caller, when the owner's target_unlock clears it, or when
\* the expiry check of a call by another caller finds the expiry reached and
\* clears it; no power, sd, usb or console call sets an owner or clears a
\* lease whose expiry has not been reached, and a gated call that the lease
\* holds back leaves the owner as it was.
C22_OwnerFrame == [][OwnerStep]_vars

\* a call that is no lease call, by the second session, has just cleared
\* the lapsed lease of the first
C22_Witness ==
    /\ prev.owner = "s1"
    /\ _lock_owner = None
    /\ call.session = "s2"
    /\ call.op \in {"sd_open", "sd_to_target", "usb_ports", "target_off",
                    "console_send"}

-----------------------------------------------------------------------------
(* Power and the mux                                                       *)
(*                                                                         *)
(* The lease, the three power switches, the write bracket and the swaps.   *)

NextPower ==
    \/ Tick
    \/ \E s \in Callers : target_lock(s)
    \/ \E s \in Callers : target_unlock(s)
    \/ \E s \in Callers : target_on(s)
    \/ \E s \in Callers : target_off(s)
    \/ \E s \in Callers : target_toggle(s)
    \/ BracketOps
    \/ SwapOps

SpecPower == Init /\ [][NextPower]_vars

PowerSwitches == {"power.on", "power.off", "power.toggle"}

PowerGateStep ==
    /\ call'.op \in {"target_on", "target_off", "target_toggle"} =>
          (drv' \cap PowerSwitches # {}
              <=> (power_controller
                   /\ _lock_owner' \in {None, call'.session}))
    /\ drv' \cap SwapCalls # {} => pwr = POWER_OFF

\* C23: target_on, target_off and target_toggle reach the power driver
\* exactly when there is a power driver and the lease does not hold the
\* caller back, whether or not a write session is open and wherever the
\* card is; the mux is swapped only while the target is reported OFF.
C23_PowerGatedByLeaseOnly == [][PowerGateStep]_vars

\* the target has just been toggled ON with the card on the host and a
\* write session open
C23_Witness ==
    /\ call.op = "target_toggle"
    /\ "power.toggle" \in drv
    /\ pwr = POWER_ON
    /\ _sd_opened
    /\ sd = SD_ON_HOST

====
